---------------------------- MODULE Spec2Model ----------------------------
(***************************************************************************)
(* Delivery Cost Calculator (Odoo 17 addon): sale.order.line pricing       *)
(* lifecycle, res.partner distance calculation and the GPS delivery        *)
(* carrier, modelled from src/models/*.py.                                 *)
(*                                                                         *)
(* Units.  Python floats are modelled as fixed-point integers:             *)
(*   latitude / longitude : tenths of a degree      (38.6 -> 386)          *)
(*   straight-line miles  : tenths of a mile        (8.77 -> 88)           *)
(*   road multiplier      : tenths                  (1.3  -> 13)           *)
(*   road distance, ceilings : hundredths of a mile (75.0 -> 7500)         *)
(*   rate per mile        : tenths of a dollar      (2.5  -> 25)           *)
(*   price_unit           : thousandths of a dollar                        *)
(* so that distance = straight * multiplier and price = distance * rate    *)
(* are exact integer products, as they are float products in the code.     *)
(***************************************************************************)
EXTENDS Integers, Sequences, FiniteSets, TLC

VARIABLES icp, partner, order, order_line, last

vars == <<icp, partner, order, order_line, last>>

(***************************************************************************)
(* Bounds of the model.                                                    *)
(***************************************************************************)
MaxLines == 2
MaxBatch == 2

(***************************************************************************)
(* Program constants.                                                      *)
(***************************************************************************)
DEFAULT_ORIGIN_LAT == 385
DEFAULT_ORIGIN_LON == -828
DEFAULT_RATE_PER_MILE == 25
DEFAULT_MAX_DELIVERY_DISTANCE == 7500
DEFAULT_ROAD_MULTIPLIER == 13
RATE_PER_MILE == 30
MAX_DISTANCE_MILES == 6000
MAX_ORDER_QUANTITY == 8

(***************************************************************************)
(* Python values.  calculate_distance_from_origin returns a tuple while    *)
(* its callers use the result as a float; the operators below give the     *)
(* outcome of the Python operations the callers apply to it.               *)
(***************************************************************************)
PyFloat(n) == [t |-> "float", v |-> n, m |-> ""]
PyTuple(d, method) == [t |-> "tuple", v |-> d, m |-> method]

\* distance * rate_per_mile : a tuple times a float raises TypeError
PyMul(a, rate) ==
    IF a.t = "float" THEN [exc |-> "none", v |-> a.v * rate]
    ELSE [exc |-> "TypeError", v |-> 0]

\* f"{distance:.2f}" : tuple.__format__ with a format spec raises TypeError
PyFormat2f(a) == IF a.t = "float" THEN "none" ELSE "TypeError"

\* distance > limit : tuple > float raises TypeError
PyGt(a, limit) ==
    IF a.t = "float" THEN [exc |-> "none", v |-> a.v > limit]
    ELSE [exc |-> "TypeError", v |-> FALSE]

(***************************************************************************)
(* Products.  A name is a sequence of characters so that strip() and       *)
(* lower() are computed, not assumed.                                      *)
(***************************************************************************)
DELIVERY_PRODUCT_NAME == <<"D", "e", "l", "i", "v", "e", "r", "y">>

LowerChar(c) ==
    CASE c = "D" -> "d"
      [] c = "W" -> "w"
      [] c = "E" -> "e"
      [] c = "L" -> "l"
      [] c = "I" -> "i"
      [] c = "V" -> "v"
      [] c = "R" -> "r"
      [] c = "Y" -> "y"
      [] OTHER -> c

\* str.lower()
Lower(s) == [k \in 1..Len(s) |-> LowerChar(s[k])]

RECURSIVE LStrip(_)
LStrip(s) == IF s # <<>> /\ Head(s) = " " THEN LStrip(Tail(s)) ELSE s

RECURSIVE RStrip(_)
RStrip(s) ==
    IF s # <<>> /\ s[Len(s)] = " " THEN RStrip(SubSeq(s, 1, Len(s) - 1)) ELSE s

\* stripping leading whitespace only
StripLeftOnly(s) == LStrip(s)

\* str.strip()
Strip(s) == RStrip(LStrip(s))

\* product.product records the order lines refer to
product ==
    [delivery |-> [active |-> TRUE, type |-> "service",
                   name |-> <<"D", "e", "l", "i", "v", "e", "r", "y">>],
     widget   |-> [active |-> TRUE, type |-> "product",
                   name |-> <<"W", "i", "d", "g", "e", "t">>],
     padded   |-> [active |-> TRUE, type |-> "service",
                   name |-> <<" ", "D", "e", "l", "i", "v", "e", "r", "y", " ">>],
     capitals |-> [active |-> TRUE, type |-> "service",
                   name |-> <<"D", "E", "L", "I", "V", "E", "R", "Y">>],
     archived |-> [active |-> FALSE, type |-> "service",
                   name |-> <<"D", "e", "l", "i", "v", "e", "r", "y">>],
     goods    |-> [active |-> TRUE, type |-> "consu",
                   name |-> <<"D", "e", "l", "i", "v", "e", "r", "y">>],
     express  |-> [active |-> TRUE, type |-> "service",
                   name |-> <<"D", "e", "l", "i", "v", "e", "r", "y", " ", "x">>],
     spaced   |-> [active |-> TRUE, type |-> "service",
                   name |-> <<"D", "e", "l", "i", " ", "v", "e", "r", "y">>],
     unnamed  |-> [active |-> TRUE, type |-> "service", name |-> <<>>]]

ProductIds == DOMAIN product

\* SaleOrderLine._compute_is_delivery_line
is_delivery_line(line) ==
    /\ line.product_id \in ProductIds
    /\ product[line.product_id].active
    /\ product[line.product_id].type = "service"
    /\ product[line.product_id].name # <<>>
    /\ Lower(Strip(product[line.product_id].name)) = Lower(DELIVERY_PRODUCT_NAME)

(***************************************************************************)
(* Coordinates used by the model (tenths of a degree).                     *)
(***************************************************************************)
NoFix == [lat |-> 0, lon |-> 0]
Near == [lat |-> 386, lon |-> -827]
Mid54 == [lat |-> 391, lon |-> -828]
Mid63 == [lat |-> 392, lon |-> -828]
BadLat == [lat |-> 950, lon |-> -828]

Points == {NoFix, Near, Mid54, Mid63, BadLat}

Abs(x) == IF x < 0 THEN -x ELSE x

\* ResPartner._validate_coordinates: "" stands for None (valid)
_validate_coordinates(p) ==
    LET lat == p.partner_latitude
        lon == p.partner_longitude
    IN  IF lat = 0 \/ lon = 0 \/ (lat = 0 /\ lon = 0) THEN "zero_or_empty"
        ELSE IF Abs(lat) > 10000 \/ Abs(lon) > 10000 THEN "impossibly_large"
        ELSE IF ~(-900 <= lat /\ lat <= 900) THEN "latitude_out_of_range"
        ELSE IF ~(-1800 <= lon /\ lon <= 1800) THEN "longitude_out_of_range"
        ELSE ""

(***************************************************************************)
(* ResPartner._haversine_distance, in tenths of a mile.  The table lists,  *)
(* for every ordered pair of the model's coordinates, the value the Python *)
(* formula (R = 3959, IEEE doubles) gives, rounded to a tenth of a mile;   *)
(* each direction and each identical pair was evaluated on its own.        *)
(* North60 stands for (60.0053978, -62.9685009) and South60 for            *)
(* (-60.0053976, 117.0314991): for this pair a evaluates to                *)
(* 1.0000000000000004 and math.asin(math.sqrt(a)) raises ValueError.       *)
(***************************************************************************)
Origin == [lat |-> DEFAULT_ORIGIN_LAT, lon |-> DEFAULT_ORIGIN_LON]
North60 == [lat |-> 600, lon |-> -630]
South60 == [lat |-> -600, lon |-> 1170]

HaversinePoints == {Origin, Near, Mid54, Mid63, North60, South60}

HaversineTable ==
    {<<385, -828, 385, -828, 0>>, <<385, -828, 386, -827, 88>>,
     <<385, -828, 391, -828, 415>>, <<385, -828, 392, -828, 484>>,
     <<385, -828, 600, -630, 17192>>, <<385, -828, -600, 1170, 107183>>,
     <<386, -827, 385, -828, 88>>, <<386, -827, 386, -827, 0>>,
     <<386, -827, 391, -828, 350>>, <<386, -827, 392, -828, 418>>,
     <<386, -827, 600, -630, 17107>>, <<386, -827, -600, 1170, 107268>>,
     <<391, -828, 385, -828, 415>>, <<391, -828, 386, -827, 350>>,
     <<391, -828, 391, -828, 0>>, <<391, -828, 392, -828, 69>>,
     <<391, -828, 600, -630, 16814>>, <<391, -828, -600, 1170, 107562>>,
     <<392, -828, 385, -828, 484>>, <<392, -828, 386, -827, 418>>,
     <<392, -828, 391, -828, 69>>, <<392, -828, 392, -828, 0>>,
     <<392, -828, 600, -630, 16751>>, <<392, -828, -600, 1170, 107625>>,
     <<600, -630, 385, -828, 17192>>, <<600, -630, 386, -827, 17107>>,
     <<600, -630, 391, -828, 16814>>, <<600, -630, 392, -828, 16751>>,
     <<600, -630, 600, -630, 0>>, <<-600, 1170, 385, -828, 107183>>,
     <<-600, 1170, 386, -827, 107268>>, <<-600, 1170, 391, -828, 107562>>,
     <<-600, 1170, 392, -828, 107625>>, <<-600, 1170, -600, 1170, 0>>}

\* the pairs for which math.asin raises "math domain error"
HaversineRaises ==
    {<<600, -630, -600, 1170>>,
     <<-600, 1170, 600, -630>>}

\* [exc, v]: the exception raised, or the distance returned
_haversine_distance(lat1, lon1, lat2, lon2) ==
    IF <<lat1, lon1, lat2, lon2>> \in HaversineRaises
    THEN [exc |-> "ValueError", v |-> 0]
    ELSE [exc |-> "none",
          v |-> (CHOOSE r \in HaversineTable :
                    <<r[1], r[2], r[3], r[4]>> = <<lat1, lon1, lat2, lon2>>)[5]]

(***************************************************************************)
(* Configuration store (ir.config_parameter).                              *)
(***************************************************************************)
\* ResPartner._get_delivery_settings: one read of the store
_get_delivery_settings(store) ==
    [origin_lat      |-> store.origin_latitude,
     origin_lon      |-> store.origin_longitude,
     rate_per_mile   |-> store.rate_per_mile,
     max_distance    |-> store.max_distance,
     road_multiplier |-> store.road_multiplier,
     google_api_key  |-> store.google_api_key,
     use_google_maps |-> store.use_google_maps]

\* SaleOrderLine._get_rate_per_mile
_get_rate_per_mile(store) == store.rate_per_mile

(***************************************************************************)
(* External collaborators: what base_geolocalize's geo_localize() and the  *)
(* Distance Matrix request answer during one operation.                    *)
(***************************************************************************)
GeoResponses ==
    {[kind |-> "raise", fix |-> NoFix],
     [kind |-> "none",  fix |-> NoFix],
     [kind |-> "fix",   fix |-> Near],
     [kind |-> "fix",   fix |-> Mid63]}

MapsResponses ==
    {[kind |-> "request_exception", meters |-> 0],
     [kind |-> "element_not_ok",    meters |-> 0],
     [kind |-> "ok",                meters |-> 15000],
     [kind |-> "ok",                meters |-> 100000]}

\* geo_localize() is only called for a partner without coordinates, and the
\* routing request is only sent when routing is enabled and a key is set
GeoAnswers == IF partner.partner_latitude = 0 \/ partner.partner_longitude = 0
              THEN GeoResponses
              ELSE {[kind |-> "none", fix |-> NoFix]}

MapsAnswers == IF icp.use_google_maps /\ icp.google_api_key # ""
               THEN MapsResponses
               ELSE {[kind |-> "request_exception", meters |-> 0]}

\* distance_meters * 0.000621371, in hundredths of a mile
MetersToMiles(meters) == (meters * 621) \div 10000

\* straight * settings.get('road_multiplier', ...), or the exception of
\* _haversine_distance
Fallback(straight, road_multiplier, called) ==
    IF straight.exc # "none"
    THEN [exc |-> straight.exc, d |-> 0, called |-> called, source |-> ""]
    ELSE [exc |-> "none", d |-> straight.v * road_multiplier,
          called |-> called, source |-> "fallback"]

\* the try block of _get_google_maps_distance when the service answers maps
RoutingTry(straight, road_multiplier, maps) ==
    IF maps.kind \in {"request_exception", "timeout", "http_error"}
    THEN [exc |-> "RequestException", d |-> 0, called |-> TRUE, source |-> ""]
    ELSE IF maps.kind = "malformed"
    THEN [exc |-> "KeyError", d |-> 0, called |-> TRUE, source |-> ""]
    ELSE IF maps.kind = "ok"
    THEN [exc |-> "none", d |-> MetersToMiles(maps.meters),
          called |-> TRUE, source |-> "service"]
    ELSE Fallback(straight, road_multiplier, TRUE)

\* the two except clauses: both answer the fallback
RoutingExcept(t, straight, road_multiplier) ==
    IF t.exc = "none" THEN t ELSE Fallback(straight, road_multiplier, TRUE)

\* ResPartner._get_google_maps_distance: [exc, d, called, source]
_get_google_maps_distance(store, origin_lat, origin_lon, dest_lat, dest_lon, maps) ==
    IF _get_delivery_settings(store).google_api_key = ""
    THEN Fallback(_haversine_distance(origin_lat, origin_lon, dest_lat, dest_lon),
                  _get_delivery_settings(store).road_multiplier, FALSE)
    ELSE RoutingExcept(
             RoutingTry(_haversine_distance(origin_lat, origin_lon, dest_lat, dest_lon),
                        _get_delivery_settings(store).road_multiplier, maps),
             _haversine_distance(origin_lat, origin_lon, dest_lat, dest_lon),
             _get_delivery_settings(store).road_multiplier)

\* the value calculate_distance_from_origin hands back on success
CalcReturn(distance, calculation_method) == PyTuple(distance, calculation_method)

\* partner record after geo_localize() answered geo
geo_localize(p, geo) ==
    IF geo.kind = "fix"
    THEN [p EXCEPT !.partner_latitude = geo.fix.lat,
                   !.partner_longitude = geo.fix.lon]
    ELSE p

Missing(p) == p.partner_latitude = 0 \/ p.partner_longitude = 0

(***************************************************************************)
(* ResPartner.calculate_distance_from_origin.  Result:                     *)
(*   partner  the partner record afterwards (geocoding may have written)   *)
(*   exc      "none" or "UserError";  reason  the rejection reason         *)
(*   value    the Python value returned;  distance  road miles (1/100)     *)
(*   geocoded / routed  whether geo_localize / the routing service ran     *)
(*   source   what supplied the distance: "service", "fallback" (inside    *)
(*            the routing lookup) or "haversine" (routing disabled)        *)
(***************************************************************************)
\* raise UserError(...)
Rejection(p, why, d, need, r) ==
    [partner |-> p, exc |-> "UserError", reason |-> why,
     value |-> PyFloat(0), distance |-> d, method |-> "", source |-> "",
     geocoded |-> need, routed |-> r]

\* the delivery-range check applied only to coordinates that were stored
\* before the call
RangeCheckStoredOnly(p, need, settings, distance, calculation_method, source, routed) ==
    IF ~need /\ distance > settings.max_distance
    THEN Rejection(p, "out_of_range", distance, need, routed)
    ELSE [partner |-> p, exc |-> "none", reason |-> "",
          value |-> CalcReturn(distance, calculation_method),
          distance |-> distance, method |-> calculation_method,
          source |-> source, geocoded |-> need, routed |-> routed]

\* the delivery-range check with an inclusive ceiling
RangeCheckInclusive(p, need, settings, distance, calculation_method, source, routed) ==
    IF distance >= settings.max_distance
    THEN Rejection(p, "out_of_range", distance, need, routed)
    ELSE [partner |-> p, exc |-> "none", reason |-> "",
          value |-> CalcReturn(distance, calculation_method),
          distance |-> distance, method |-> calculation_method,
          source |-> source, geocoded |-> need, routed |-> routed]

\* the delivery-range check and the return statement
RangeCheck(p, need, settings, distance, calculation_method, source, routed) ==
    IF distance > settings.max_distance
    THEN Rejection(p, "out_of_range", distance, need, routed)
    ELSE [partner |-> p, exc |-> "none", reason |-> "",
          value |-> CalcReturn(distance, calculation_method),
          distance |-> distance, method |-> calculation_method,
          source |-> source, geocoded |-> need, routed |-> routed]

\* the routing branch of the try block; except Exception raises UserError
MeasureRouted(p, need, settings, g) ==
    IF g.exc # "none"
    THEN Rejection(p, "calculation_error", 0, need, g.called)
    ELSE RangeCheck(p, need, settings, g.d, "google_maps", g.source, g.called)

\* the haversine branch with the default multiplier in place of the
\* configured one
MeasureStraightDefaultMultiplier(p, need, settings, straight_line) ==
    IF straight_line.exc # "none"
    THEN Rejection(p, "calculation_error", 0, need, FALSE)
    ELSE RangeCheck(p, need, settings,
                    straight_line.v * DEFAULT_ROAD_MULTIPLIER,
                    "haversine", "haversine", FALSE)

\* the haversine branch of the try block
MeasureStraight(p, need, settings, straight_line) ==
    IF straight_line.exc # "none"
    THEN Rejection(p, "calculation_error", 0, need, FALSE)
    ELSE RangeCheck(p, need, settings,
                    straight_line.v * settings.road_multiplier,
                    "haversine", "haversine", FALSE)

\* the distance by the routing service, or by haversine and multiplier
MeasureDistance(p, need, store, settings, maps) ==
    IF settings.use_google_maps
    THEN MeasureRouted(p, need, settings,
             _get_google_maps_distance(store,
                 settings.origin_lat, settings.origin_lon,
                 p.partner_latitude, p.partner_longitude, maps))
    ELSE MeasureStraight(p, need, settings,
             _haversine_distance(
                 settings.origin_lat, settings.origin_lon,
                 p.partner_latitude, p.partner_longitude))

\* after the geocoding attempt: p1 is the partner record then
ValidateAndMeasure(p1, need, store, geo, maps) ==
    IF need /\ (geo.kind = "raise" \/ Missing(p1))
    THEN Rejection(p1, "geocoding_failed", 0, need, FALSE)
    ELSE IF _validate_coordinates(p1) # ""
    THEN Rejection(p1, "invalid_coordinates", 0, need, FALSE)
    ELSE MeasureDistance(p1, need, store, _get_delivery_settings(store), maps)

\* the calculation with the geocoding attempt made for every partner
CalculateAlwaysGeocodes(p, store, geo, maps) ==
    ValidateAndMeasure(
        IF geo.kind # "raise" THEN geo_localize(p, geo) ELSE p,
        TRUE, store, geo, maps)

calculate_distance_from_origin(p, store, geo, maps) ==
    ValidateAndMeasure(
        IF Missing(p) /\ geo.kind # "raise" THEN geo_localize(p, geo) ELSE p,
        Missing(p), store, geo, maps)

(***************************************************************************)
(* State.                                                                  *)
(*   icp         the delivery_cost_calculator.* configuration parameters   *)
(*   partner     the customer record: coordinates and x_partner_distance   *)
(*   order       the sale order: partner_id / partner_shipping_id, 0 = unset *)
(*   order_line  the order's lines, in creation order                      *)
(*   last        what the last operation did and answered                  *)
(***************************************************************************)
ConfigSpace ==
    [rate_per_mile : {DEFAULT_RATE_PER_MILE, 30},
     max_distance : {5000, DEFAULT_MAX_DELIVERY_DISTANCE},
     google_api_key : {"", "key"},
     use_google_maps : BOOLEAN,
     road_multiplier : {DEFAULT_ROAD_MULTIPLIER},
     origin_latitude : {DEFAULT_ORIGIN_LAT},
     origin_longitude : {DEFAULT_ORIGIN_LON}]

\* vals dictionaries handed to create(); delivery_cost_calculated defaults to
\* False, and is True in the vals of a line copied from a locked line
ValsChoices ==
    {[product_id |-> "delivery", product_uom_qty |-> 1, price_unit |-> 0,
      delivery_cost_calculated |-> FALSE],
     [product_id |-> "delivery", product_uom_qty |-> 1, price_unit |-> 40000,
      delivery_cost_calculated |-> TRUE],
     [product_id |-> "widget", product_uom_qty |-> 4, price_unit |-> 10000,
      delivery_cost_calculated |-> FALSE]}

NoRate == [success |-> FALSE, price |-> 0, error_message |-> FALSE,
           warning_message |-> FALSE]

Quiet(op) == [op |-> op, line |-> 0, result |-> "none", exc |-> "none",
              attempts |-> <<>>, geocoded |-> FALSE, calc_called |-> FALSE,
              rate |-> NoRate]

Init ==
    /\ icp = [rate_per_mile |-> DEFAULT_RATE_PER_MILE,
              max_distance |-> DEFAULT_MAX_DELIVERY_DISTANCE,
              google_api_key |-> "", use_google_maps |-> FALSE,
              road_multiplier |-> DEFAULT_ROAD_MULTIPLIER,
              origin_latitude |-> DEFAULT_ORIGIN_LAT,
              origin_longitude |-> DEFAULT_ORIGIN_LON]
    /\ partner = [partner_latitude |-> 0, partner_longitude |-> 0,
                  x_partner_distance |-> 0]
    /\ order = [partner_id |-> 0, partner_shipping_id |-> 0]
    /\ order_line = <<>>
    /\ last = Quiet("init")

\* res.config.settings saved with one parameter edited
set_values ==
    \E c \in ConfigSpace :
        /\ Cardinality({f \in DOMAIN icp : c[f] # icp[f]}) = 1
        /\ icp' = c
        /\ last' = Quiet("set_values")
        /\ UNCHANGED <<partner, order, order_line>>

\* the customer's address / stored coordinates are edited
write_partner ==
    \E pt \in Points :
        /\ partner' = [partner EXCEPT !.partner_latitude = pt.lat,
                                      !.partner_longitude = pt.lon]
        /\ partner' # partner
        /\ last' = Quiet("write_partner")
        /\ UNCHANGED <<icp, order, order_line>>

\* the order's customer / delivery address is chosen or cleared
write_order ==
    \E c \in {0, 1}, sh \in {0, 1} :
        /\ order' = [partner_id |-> c, partner_shipping_id |-> sh]
        /\ order' # order
        /\ last' = Quiet("write_order")
        /\ UNCHANGED <<icp, partner, order_line>>

\* what one pricing attempt on a line did
Attempt(idx, line, rate_per_mile, c, exc) ==
    [line |-> idx, old_price |-> line.price_unit,
     was_locked |-> line.delivery_cost_calculated,
     reason |-> c.reason, distance |-> c.distance,
     rate |-> rate_per_mile, exc |-> exc]

\* Variants of the end of the try block with a defect, used to show that
\* the properties below depend on it.
\*   FlagFirst: the flag is set before the price is computed
WritePriceFlagFirst(idx, line, rate_per_mile, c, delivery_cost, exc) ==
    [line |-> IF exc = "none"
              THEN [line EXCEPT !.price_unit = delivery_cost.v,
                                !.delivery_cost_calculated = TRUE]
              ELSE [line EXCEPT !.delivery_cost_calculated = TRUE],
     partner |-> c.partner, exc |-> exc,
     att |-> Attempt(idx, line, rate_per_mile, c, exc),
     geocoded |-> c.geocoded]

\*   ResetOnFailure: a failed calculation clears the line's price and flag
WritePriceResetOnFailure(idx, line, rate_per_mile, c, delivery_cost, exc) ==
    [line |-> IF exc = "none"
              THEN [line EXCEPT !.price_unit = delivery_cost.v,
                                !.delivery_cost_calculated = TRUE]
              ELSE [line EXCEPT !.price_unit = 0,
                                !.delivery_cost_calculated = FALSE],
     partner |-> c.partner, exc |-> exc,
     att |-> Attempt(idx, line, rate_per_mile, c, exc),
     geocoded |-> c.geocoded]

(***************************************************************************)
(* The body of the try block the three triggers share:                     *)
(*   rate_per_mile = line._get_rate_per_mile()                             *)
(*   distance = partner.calculate_distance_from_origin()                   *)
(*   delivery_cost = distance * rate_per_mile                              *)
(*   price_unit, delivery_cost_calculated = delivery_cost, True            *)
(* exc is the exception that leaves the block ("none" if it completes).    *)
(***************************************************************************)
\* the write of price_unit and delivery_cost_calculated, reached only when
\* no exception was raised before it
WritePrice(idx, line, rate_per_mile, c, delivery_cost, exc) ==
    [line |-> IF exc = "none"
              THEN [line EXCEPT !.price_unit = delivery_cost.v,
                                !.delivery_cost_calculated = TRUE]
              ELSE line,
     partner |-> c.partner, exc |-> exc,
     att |-> Attempt(idx, line, rate_per_mile, c, exc),
     geocoded |-> c.geocoded]

\* delivery_cost = distance * rate_per_mile
Multiply(idx, line, rate_per_mile, c, delivery_cost) ==
    WritePrice(idx, line, rate_per_mile, c, delivery_cost,
               IF c.exc # "none" THEN c.exc ELSE delivery_cost.exc)

Calculated(idx, line, rate_per_mile, c) ==
    Multiply(idx, line, rate_per_mile, c, PyMul(c.value, rate_per_mile))

TryPrice(idx, line, p, store, geo, maps) ==
    Calculated(idx, line, _get_rate_per_mile(store),
               calculate_distance_from_origin(p, store, geo, maps))

\* the try block with the distance taken from the first item of the pair
CalculatedFirstItem(idx, line, rate_per_mile, c) ==
    Multiply(idx, line, rate_per_mile, c,
             PyMul(PyFloat(c.value.v), rate_per_mile))

NoCustomer(idx, line) ==
    [line |-> idx, old_price |-> line.price_unit,
     was_locked |-> line.delivery_cost_calculated,
     reason |-> "no_customer", distance |-> 0, rate |-> 0, exc |-> "none"]

\* the end of the onchange: the line, the partner and the answer
OnchangeEnd(i, t) ==
    /\ order_line' = [order_line EXCEPT ![i] = t.line]
    /\ partner' = t.partner
    /\ last' = [Quiet("onchange") EXCEPT
           !.line = i,
           !.result = IF t.exc = "none" THEN "confirmation" ELSE "raised",
           !.exc = IF t.exc = "none" THEN "none" ELSE "UserError",
           !.attempts = <<t.att>>,
           !.geocoded = t.geocoded,
           !.calc_called = TRUE]
    /\ UNCHANGED <<icp, order>>

\* The onchange without the delivery_cost_calculated guard, pricing from the
\* first item of the returned pair.
OnchangeUnguarded(i, geo, maps) ==
    IF ~is_delivery_line(order_line[i])
    THEN /\ last' = [Quiet("onchange") EXCEPT !.line = i, !.result = "returned"]
         /\ UNCHANGED <<icp, partner, order, order_line>>
    ELSE IF order.partner_id = 0
    THEN /\ last' = [Quiet("onchange") EXCEPT
                !.line = i, !.result = "warning",
                !.attempts = <<NoCustomer(i, order_line[i])>>]
         /\ UNCHANGED <<icp, partner, order, order_line>>
    ELSE OnchangeEnd(i, CalculatedFirstItem(i, order_line[i],
                            _get_rate_per_mile(icp),
                            calculate_distance_from_origin(partner, icp, geo, maps)))

\* The onchange without the test for the order's customer.
OnchangeWithoutCustomerTest(i, geo, maps) ==
    IF ~is_delivery_line(order_line[i]) \/ order_line[i].delivery_cost_calculated
    THEN /\ last' = [Quiet("onchange") EXCEPT !.line = i, !.result = "returned"]
         /\ UNCHANGED <<icp, partner, order, order_line>>
    ELSE OnchangeEnd(i, TryPrice(i, order_line[i], partner, icp, geo, maps))

(***************************************************************************)
(* SaleOrderLine._onchange_product_delivery_cost on line i.                *)
(***************************************************************************)
_onchange_product_delivery_cost(i, geo, maps) ==
    IF ~is_delivery_line(order_line[i]) \/ order_line[i].delivery_cost_calculated
    THEN /\ last' = [Quiet("onchange") EXCEPT !.line = i, !.result = "returned"]
         /\ UNCHANGED <<icp, partner, order, order_line>>
    ELSE IF order.partner_id = 0
    THEN /\ last' = [Quiet("onchange") EXCEPT
                !.line = i, !.result = "warning",
                !.attempts = <<NoCustomer(i, order_line[i])>>]
         /\ UNCHANGED <<icp, partner, order, order_line>>
    ELSE OnchangeEnd(i, TryPrice(i, order_line[i], partner, icp, geo, maps))

onchange ==
    \E i \in 1..Len(order_line), geo \in GeoAnswers, maps \in MapsAnswers :
        _onchange_product_delivery_cost(i, geo, maps)

(***************************************************************************)
(* SaleOrderLine.create: super().create(vals_list), then the loop over the *)
(* new lines.  The loop's state: lines so far, the partner record, the     *)
(* attempts made, whether geocoding / the calculation ran, and the         *)
(* exception that left the loop.                                           *)
(***************************************************************************)
LoopStart(lines) ==
    [lines |-> lines, partner |-> partner, attempts |-> <<>>,
     geocoded |-> FALSE, calc_called |-> FALSE, exc |-> "none"]

\* one pass of a loop body that ran the try block with outcome t
LoopPass(k, acc, t, exc) ==
    [lines |-> [acc.lines EXCEPT ![k] = t.line],
     partner |-> t.partner,
     attempts |-> Append(acc.attempts, t.att),
     geocoded |-> acc.geocoded \/ t.geocoded,
     calc_called |-> TRUE,
     exc |-> exc]

\* create with only the except UserError clause
CreateCatchesUserErrorOnly(exc) == exc = "UserError"

\* create's handlers: except UserError, except Exception (both only log)
CreateCatches(exc) == exc \in {"UserError", "TypeError"}

CreateTry(k, acc, t) ==
    LoopPass(k, acc, t, IF CreateCatches(t.exc) THEN "none" ELSE t.exc)

CreateStep(k, acc, store, geo, maps) ==
    IF is_delivery_line(acc.lines[k]) /\ ~acc.lines[k].delivery_cost_calculated
    THEN IF order.partner_id = 0
         THEN [acc EXCEPT !.attempts = Append(@, NoCustomer(k, acc.lines[k]))]
         ELSE CreateTry(k, acc,
                  TryPrice(k, acc.lines[k], acc.partner, store, geo, maps))
    ELSE acc

RECURSIVE CreateLoop(_, _, _, _, _)
CreateLoop(k, acc, store, geo, maps) ==
    IF k > Len(acc.lines) \/ acc.exc # "none" THEN acc
    ELSE CreateLoop(k + 1, CreateStep(k, acc, store, geo, maps), store, geo, maps)

CreateEnd(first, r) ==
    /\ order_line' = r.lines
    /\ partner' = r.partner
    /\ last' = [Quiet("create") EXCEPT
           !.line = first,
           !.result = IF r.exc = "none" THEN "returned" ELSE "raised",
           !.exc = r.exc,
           !.attempts = r.attempts,
           !.geocoded = r.geocoded,
           !.calc_called = r.calc_called]
    /\ UNCHANGED <<icp, order>>

create(vals_list, geo, maps) ==
    CreateEnd(Len(order_line) + 1,
              CreateLoop(Len(order_line) + 1, LoopStart(order_line \o vals_list),
                         icp, geo, maps))

Batches == UNION {[1..n -> ValsChoices] : n \in 1..MaxBatch}

create_lines ==
    \E vals_list \in Batches, geo \in GeoAnswers, maps \in MapsAnswers :
        /\ Len(order_line) + Len(vals_list) <= MaxLines
        /\ create(vals_list, geo, maps)

(***************************************************************************)
(* SaleOrder.action_recalculate_delivery_cost.                             *)
(***************************************************************************)
\* the recalculation's handler without the raise
RecalcSwallows(exc) == FALSE

\* the recalculation's handler: except Exception: log, then raise
RecalcReraises(exc) == exc # "none"

RecalcTry(k, acc, t) ==
    LoopPass(k, acc, t, IF RecalcReraises(t.exc) THEN t.exc ELSE "none")

RecalcStep(k, acc, store, geo, maps) ==
    IF is_delivery_line(acc.lines[k])
    THEN RecalcTry(k, acc,
             TryPrice(k, acc.lines[k], acc.partner, store, geo, maps))
    ELSE acc

RECURSIVE RecalcLoop(_, _, _, _, _)
RecalcLoop(k, acc, store, geo, maps) ==
    IF k > Len(acc.lines) \/ acc.exc # "none" THEN acc
    ELSE RecalcLoop(k + 1, RecalcStep(k, acc, store, geo, maps), store, geo, maps)

\* the delivery lines an order without customer leaves unpriced
RECURSIVE Unserved(_, _)
Unserved(lines, k) ==
    IF k > Len(lines) THEN <<>>
    ELSE (IF is_delivery_line(lines[k]) THEN <<NoCustomer(k, lines[k])>> ELSE <<>>)
         \o Unserved(lines, k + 1)

RecalcEnd(r) ==
    /\ order_line' = r.lines
    /\ partner' = r.partner
    /\ last' = [Quiet("recalculate") EXCEPT
           !.result = IF r.exc = "none" THEN "success" ELSE "raised",
           !.exc = r.exc,
           !.attempts = r.attempts,
           !.geocoded = r.geocoded,
           !.calc_called = r.calc_called]
    /\ UNCHANGED <<icp, order>>

action_recalculate_delivery_cost(geo, maps) ==
    IF order.partner_id = 0
    THEN /\ last' = [Quiet("recalculate") EXCEPT
                !.result = "raised", !.exc = "UserError",
                !.attempts = Unserved(order_line, 1)]
         /\ UNCHANGED <<icp, partner, order, order_line>>
    ELSE IF \A k \in 1..Len(order_line) : ~is_delivery_line(order_line[k])
    THEN /\ last' = [Quiet("recalculate") EXCEPT
                !.result = "raised", !.exc = "UserError"]
         /\ UNCHANGED <<icp, partner, order, order_line>>
    ELSE RecalcEnd(RecalcLoop(1, LoopStart(order_line), icp, geo, maps))

recalculate ==
    \E geo \in GeoAnswers, maps \in MapsAnswers :
        action_recalculate_delivery_cost(geo, maps)

(***************************************************************************)
(* DeliveryCarrier.gps_rate_shipment(order).                               *)
(***************************************************************************)
RECURSIVE SumQty(_, _)
SumQty(lines, k) ==
    IF k > Len(lines) THEN 0
    ELSE (IF product[lines[k].product_id].type \in {"product", "consu"}
          THEN lines[k].product_uom_qty ELSE 0) + SumQty(lines, k + 1)

\* the quantity test with an inclusive ceiling
QuantityAbove(total_qty) == total_qty > MAX_ORDER_QUANTITY

\* total_qty >= MAX_ORDER_QUANTITY
QuantityBlocks(total_qty) == total_qty >= MAX_ORDER_QUANTITY

\* rating with except UserError in place of except Exception
RateCatchesUserErrorOnly(exc) == exc = "UserError"

\* the try around calculate_distance_from_origin and the debug f-string:
\* except Exception answers "unavailable"
RateCatches(exc) == exc \in {"UserError", "TypeError"}

Unavailable == [Quiet("gps_rate_shipment") EXCEPT !.result = "returned"]

\* the answer once calculate_distance_from_origin has run with outcome c
RateAnswer(ran, c, try_exc, over, price) ==
    IF try_exc # "none"
    THEN IF RateCatches(try_exc) THEN ran
         ELSE [ran EXCEPT !.result = "raised", !.exc = try_exc]
    ELSE IF over.exc # "none"
    THEN [ran EXCEPT !.result = "raised", !.exc = over.exc]
    ELSE IF over.v
    THEN ran
    ELSE IF price.exc # "none"
    THEN [ran EXCEPT !.result = "raised", !.exc = price.exc]
    ELSE [ran EXCEPT !.rate = [success |-> TRUE, price |-> price.v,
                               error_message |-> FALSE,
                               warning_message |-> FALSE]]

\* the try block around the calculation and the debug f-string
RateTry(need, c, try_exc) ==
    /\ partner' = c.partner
    /\ last' = RateAnswer(
                  [Unavailable EXCEPT
                      !.geocoded = need, !.calc_called = TRUE,
                      !.attempts = <<[line |-> 0, old_price |-> 0,
                                      was_locked |-> FALSE, reason |-> c.reason,
                                      distance |-> c.distance,
                                      rate |-> RATE_PER_MILE, exc |-> try_exc]>>],
                  c, try_exc,
                  PyGt(c.value, MAX_DISTANCE_MILES),
                  PyMul(c.value, RATE_PER_MILE))
    /\ UNCHANGED <<icp, order, order_line>>

RateCalculate(need, c) ==
    RateTry(need, c, IF c.exc # "none" THEN c.exc ELSE PyFormat2f(c.value))

\* the geocoding attempt: p1 is the partner record after it
RateGeocode(need, p1, geo, maps) ==
    IF need /\ (geo.kind = "raise" \/ Missing(p1))
    THEN /\ last' = [Unavailable EXCEPT !.geocoded = TRUE]
         /\ UNCHANGED <<icp, partner, order, order_line>>
    ELSE RateCalculate(need, calculate_distance_from_origin(p1, icp, geo, maps))

gps_rate_shipment(geo, maps) ==
    IF order.partner_shipping_id = 0 /\ order.partner_id = 0
    THEN /\ last' = Unavailable
         /\ UNCHANGED <<icp, partner, order, order_line>>
    ELSE IF QuantityBlocks(SumQty(order_line, 1))
    THEN /\ last' = Unavailable
         /\ UNCHANGED <<icp, partner, order, order_line>>
    ELSE RateGeocode(Missing(partner),
                     IF Missing(partner) /\ geo.kind # "raise"
                     THEN geo_localize(partner, geo) ELSE partner,
                     geo, maps)

rate_shipment ==
    \E geo \in GeoAnswers, maps \in MapsAnswers :
        gps_rate_shipment(geo, maps)

Next ==
    \/ set_values
    \/ write_partner
    \/ write_order
    \/ onchange
    \/ create_lines
    \/ recalculate
    \/ rate_shipment

Spec == Init /\ [][Next]_vars

(***************************************************************************)
(* The distance engine on its own: calculate_distance_from_origin and the  *)
(* functions it is built from, applied to a wider range of settings,       *)
(* coordinates and service replies than the order workflow above.          *)
(***************************************************************************)
Equator == [lat |-> 0, lon |-> -828]

EnginePoints == Points \cup {South60, Equator}

\* replies of the Distance Matrix request: no response in time, a 4xx/5xx
\* status, a body without the expected keys, a top-level or element status
\* other than OK, and distances in metres
RoutingReplies ==
    MapsResponses \cup
        {[kind |-> "timeout",    meters |-> 0],
         [kind |-> "http_error", meters |-> 0],
         [kind |-> "malformed",  meters |-> 0],
         [kind |-> "top_not_ok", meters |-> 0],
         [kind |-> "ok",         meters |-> 86877]}

RoutingAnswers == IF icp.use_google_maps /\ icp.google_api_key # ""
                  THEN RoutingReplies
                  ELSE {[kind |-> "request_exception", meters |-> 0]}

EngineConfigSpace ==
    {c \in [rate_per_mile : {DEFAULT_RATE_PER_MILE},
            max_distance : {5000, 5395, DEFAULT_MAX_DELIVERY_DISTANCE},
            google_api_key : {"", "key"},
            use_google_maps : BOOLEAN,
            road_multiplier : {DEFAULT_ROAD_MULTIPLIER, 15},
            origin_latitude : {Origin.lat, North60.lat},
            origin_longitude : {Origin.lon, North60.lon}] :
        [lat |-> c.origin_latitude, lon |-> c.origin_longitude]
            \in {Origin, North60}}

\* res.config.settings saved
engine_set_values ==
    \E c \in EngineConfigSpace :
        /\ c # icp
        /\ icp' = c
        /\ last' = [op |-> "set_values"]
        /\ UNCHANGED <<partner, order, order_line>>

\* the customer's stored coordinates are edited
engine_write_partner ==
    \E pt \in EnginePoints :
        /\ partner' = [partner EXCEPT !.partner_latitude = pt.lat,
                                      !.partner_longitude = pt.lon]
        /\ partner' # partner
        /\ last' = [op |-> "write_partner"]
        /\ UNCHANGED <<icp, order, order_line>>

\* partner.calculate_distance_from_origin() with outcome c
CalculateEnd(before, maps, c) ==
    /\ partner' = c.partner
    /\ last' = [op |-> "calculate", before |-> before, maps |-> maps, c |-> c]
    /\ UNCHANGED <<icp, order, order_line>>

calculate ==
    \E geo \in GeoAnswers, maps \in RoutingAnswers :
        CalculateEnd(partner, maps,
                     calculate_distance_from_origin(partner, icp, geo, maps))

\* the call of _get_google_maps_distance made by
\* calculate_distance_from_origin: routing enabled, validated coordinates
LookupEnd(settings, maps, g) ==
    /\ last' = [op |-> "routing_lookup", maps |-> maps, g |-> g,
                straight |-> _haversine_distance(
                                settings.origin_lat, settings.origin_lon,
                                partner.partner_latitude,
                                partner.partner_longitude)]
    /\ UNCHANGED <<icp, partner, order, order_line>>

routing_lookup ==
    /\ icp.use_google_maps
    /\ _validate_coordinates(partner) = ""
    /\ \E maps \in RoutingAnswers :
          LookupEnd(_get_delivery_settings(icp), maps,
                    _get_google_maps_distance(icp,
                        _get_delivery_settings(icp).origin_lat,
                        _get_delivery_settings(icp).origin_lon,
                        partner.partner_latitude, partner.partner_longitude,
                        maps))

\* two calls of calculate_distance_from_origin in a row, the collaborators
\* answering the same both times; c1 and c2 are the outcomes
CalculateTwiceEnd(before, geo, maps, c1, c2) ==
    /\ partner' = c2.partner
    /\ last' = [op |-> "calculate_twice", before |-> before, geo |-> geo,
                maps |-> maps, first |-> c1, second |-> c2]
    /\ UNCHANGED <<icp, order, order_line>>

SecondCall(before, geo, maps, c1) ==
    CalculateTwiceEnd(before, geo, maps, c1,
                      calculate_distance_from_origin(c1.partner, icp, geo, maps))

calculate_twice ==
    \E geo \in GeoAnswers, maps \in RoutingAnswers :
        SecondCall(partner, geo, maps,
                   calculate_distance_from_origin(partner, icp, geo, maps))

EngineNext ==
    \/ engine_set_values
    \/ engine_write_partner
    \/ calculate
    \/ routing_lookup
    \/ calculate_twice

EngineSpec == Init /\ [][EngineNext]_vars

(***************************************************************************)
(* The pure functions applied to inputs drawn from bounded sets.           *)
(***************************************************************************)
\* partner._validate_coordinates() for stored coordinates pt
ValidationPoints ==
    [lat : {-901, -900, 0, 10, 385, 900, 901, 10010},
     lon : {-1801, -1800, -828, 0, 10, 1800, 1801, 2000, 10010}]

validate_coordinates ==
    \E pt \in ValidationPoints :
        /\ last' = [op |-> "validate_coordinates", pt |-> pt,
                    error |-> _validate_coordinates(
                                 [partner_latitude |-> pt.lat,
                                  partner_longitude |-> pt.lon])]
        /\ UNCHANGED <<icp, partner, order, order_line>>

\* _haversine_distance between two points, in both directions, and from
\* each point to itself
haversine_distance ==
    \E a \in HaversinePoints, b \in HaversinePoints :
        /\ last' = [op |-> "haversine_distance", a |-> a, b |-> b,
                    ab |-> _haversine_distance(a.lat, a.lon, b.lat, b.lon),
                    ba |-> _haversine_distance(b.lat, b.lon, a.lat, a.lon),
                    aa |-> _haversine_distance(a.lat, a.lon, a.lat, a.lon)]
        /\ UNCHANGED <<icp, partner, order, order_line>>

\* _compute_is_delivery_line for a line with product id (or without product)
compute_is_delivery_line ==
    \E id \in ProductIds \cup {"none"} :
        /\ last' = [op |-> "compute_is_delivery_line", product_id |-> id,
                    is_delivery_line |-> is_delivery_line([product_id |-> id])]
        /\ UNCHANGED <<icp, partner, order, order_line>>

FunctionNext ==
    \/ validate_coordinates
    \/ haversine_distance
    \/ compute_is_delivery_line

FunctionSpec == Init /\ [][FunctionNext]_vars

(***************************************************************************)
(* One pricing calculation step by step, with the settings being saved by  *)
(* another user in between.  The calculation reads the store three times:  *)
(* _get_rate_per_mile() in the trigger, _get_delivery_settings() in        *)
(* calculate_distance_from_origin, and _get_delivery_settings() again in   *)
(* _get_google_maps_distance.  The customer has stored, valid coordinates, *)
(* so the steps before the second read (geocoding, validation), which do   *)
(* not read the store, are left out.  last.pc is the position reached.     *)
(***************************************************************************)
StepConfigSpace ==
    [rate_per_mile : {DEFAULT_RATE_PER_MILE, 30},
     max_distance : {DEFAULT_MAX_DELIVERY_DISTANCE},
     google_api_key : {"", "key"},
     use_google_maps : BOOLEAN,
     road_multiplier : {DEFAULT_ROAD_MULTIPLIER, 15},
     origin_latitude : {DEFAULT_ORIGIN_LAT},
     origin_longitude : {DEFAULT_ORIGIN_LON}]

InProgress == last.op = "pricing" /\ last.pc # "done"

\* res.config.settings saved by another user, at any moment
step_set_values ==
    \E c \in StepConfigSpace :
        /\ c # icp
        /\ icp' = c
        /\ UNCHANGED <<partner, order, order_line, last>>

\* the customer's stored coordinates are edited between calculations
step_write_partner ==
    /\ ~InProgress
    /\ \E pt \in {Near, Mid63} :
          /\ partner' = [partner EXCEPT !.partner_latitude = pt.lat,
                                        !.partner_longitude = pt.lon]
          /\ partner' # partner
    /\ last' = [op |-> "write_partner"]
    /\ UNCHANGED <<icp, order, order_line>>

\* rate_per_mile = self._get_rate_per_mile()
read_rate ==
    /\ ~InProgress
    /\ _validate_coordinates(partner) = ""
    /\ last' = [op |-> "pricing", pc |-> "settings",
                rate_per_mile |-> _get_rate_per_mile(icp),
                stores |-> {icp}]
    /\ UNCHANGED <<icp, partner, order, order_line>>

\* settings = self._get_delivery_settings()
read_settings ==
    /\ last.op = "pricing"
    /\ last.pc = "settings"
    /\ last' = [op |-> "pricing", pc |-> "measure",
                rate_per_mile |-> last.rate_per_mile,
                settings |-> _get_delivery_settings(icp),
                stores |-> last.stores \cup {icp}]
    /\ UNCHANGED <<icp, partner, order, order_line>>

\* the try block and the range check; the routing lookup reads the store
MeasureEnd(maps, c) ==
    /\ last' = [op |-> "pricing", pc |-> "done",
                rate_per_mile |-> last.rate_per_mile,
                settings |-> last.settings,
                stores |-> IF last.settings.use_google_maps
                           THEN last.stores \cup {icp} ELSE last.stores,
                maps |-> maps, c |-> c]
    /\ UNCHANGED <<icp, partner, order, order_line>>

measure ==
    /\ last.op = "pricing"
    /\ last.pc = "measure"
    /\ \E maps \in (IF last.settings.use_google_maps /\ icp.google_api_key # ""
                     THEN MapsResponses
                     ELSE {[kind |-> "request_exception", meters |-> 0]}) :
          MeasureEnd(maps, MeasureDistance(partner, FALSE, icp, last.settings, maps))

StepNext ==
    \/ step_set_values
    \/ step_write_partner
    \/ read_rate
    \/ read_settings
    \/ measure

StepSpec == Init /\ [][StepNext]_vars

(***************************************************************************)
(* Properties.                                                             *)
(***************************************************************************)
Lines == 1..Len(order_line)

DeliveryLines == {k \in Lines : is_delivery_line(order_line[k])}

Locked(k) == order_line[k].delivery_cost_calculated

\* the pricing calculation of attempt a succeeded (returned a distance)
Priceable(a) == a.reason = ""

\* attempt a was rejected
Rejected(a) == a.reason # ""

Attempts == {last.attempts[k] : k \in 1..Len(last.attempts)}

\* C1: a locked line's price_unit is not changed by any step other than
\* the explicit recalculation, whatever happens to the customer's coordinates.
Thm_C1 ==
    [][\A i \in Lines :
          (Locked(i) /\ last'.op # "recalculate")
              => order_line'[i].price_unit = order_line[i].price_unit]_vars

\* C1 witness: the onchange ran on a locked delivery line of an order whose
\* customer has usable coordinates.
Wit_C1 ==
    /\ last.op = "onchange"
    /\ is_delivery_line(order_line[last.line])
    /\ Locked(last.line)
    /\ order.partner_id # 0
    /\ _validate_coordinates(partner) = ""

\* C2: after a recalculation on an order with a customer that prices
\* successfully, every delivery line carries distance * rate and is locked.
Cex_C2 ==
    (/\ last.op = "recalculate"
     /\ order.partner_id # 0
     /\ DeliveryLines # {}
     /\ \A a \in Attempts : Priceable(a))
        => \A k \in DeliveryLines :
              /\ Locked(k)
              /\ \E a \in Attempts :
                    order_line[k].price_unit = a.distance * a.rate

\* C3: after the onchange or create ran on an unlocked delivery line whose
\* customer prices successfully, the line carries distance * rate and is locked.
Cex_C3 ==
    last.op \in {"onchange", "create"}
        => \A a \in Attempts :
              (Priceable(a) /\ ~a.was_locked)
                  => /\ order_line[a.line].price_unit = a.distance * a.rate
                     /\ Locked(a.line)

Thm_C6 ==
    last.op = "create"
        => /\ last.result = "returned"
           /\ last.exc = "none"
           /\ \A a \in Attempts : a.line \in Lines

\* C6 witness: create returned although an unexpected exception left the
\* try block of both lines of a batch.
Wit_C6 ==
    /\ last.op = "create"
    /\ last.result = "returned"
    /\ Len(last.attempts) = 2
    /\ \A a \in Attempts : a.exc = "TypeError"

\* C7: the recalculation raises whenever the order has no customer, has no
\* delivery line, or pricing was rejected.
Thm_C7 ==
    (/\ last.op = "recalculate"
     /\ \/ order.partner_id = 0
        \/ DeliveryLines = {}
        \/ \E a \in Attempts : Rejected(a))
        => last.result = "raised"

\* C7 witness: the recalculation raised because geocoding failed.
Wit_C7 ==
    /\ last.op = "recalculate"
    /\ last.result = "raised"
    /\ \E a \in Attempts : a.reason = "geocoding_failed"

HasPartner == order.partner_shipping_id # 0 \/ order.partner_id # 0

\* C8: the method is offered exactly when the order has a delivery partner,
\* the physical quantity is below the ceiling, the partner has valid
\* coordinates and the road distance is at most the carrier ceiling.
Cex_C8 ==
    last.op = "gps_rate_shipment"
        => (last.rate.success <=>
               /\ HasPartner
               /\ SumQty(order_line, 1) < MAX_ORDER_QUANTITY
               /\ _validate_coordinates(partner) = ""
               /\ \E a \in Attempts :
                     /\ a.reason \in {"", "out_of_range"}
                     /\ a.distance <= MAX_DISTANCE_MILES)

Thm_C10 ==
    last.op = "gps_rate_shipment"
        => /\ last.result = "returned"
           /\ ~last.rate.success
                 => (last.rate.price = 0 /\ last.rate.error_message = FALSE)

\* C10 witness: rating answered "unavailable" after an exception left the
\* try block around the distance calculation.
Wit_C10 ==
    /\ last.op = "gps_rate_shipment"
    /\ last.result = "returned"
    /\ ~last.rate.success
    /\ \E a \in Attempts : a.exc # "none"

Cex_C12 ==
    last.op = "routing_lookup"
        => /\ last.g.exc = "none"
           /\ last.g.source = "service"
                 => (icp.google_api_key # "" /\ last.maps.kind = "ok")
           /\ (icp.google_api_key = "" \/ last.maps.kind # "ok")
                 => last.g.d = last.straight.v * icp.road_multiplier

\* C13: when routing is enabled and the multiplier fallback supplied the
\* distance a successful calculation returns, the method tag returned with it
\* is the haversine-multiplier method, and it is the external-routing method
\* only when the service supplied the distance.
Cex_C13 ==
    (last.op = "calculate" /\ last.c.exc = "none")
        => /\ last.c.source = "fallback" => last.c.method = "haversine"
           /\ last.c.method = "google_maps" => last.c.source = "service"

\* C14: with external routing disabled, the routing service is never called,
\* and a returned road distance is the haversine distance from the origin to
\* the customer times the configured road multiplier, tagged with the
\* haversine-multiplier method.
Thm_C14 ==
    (last.op = "calculate" /\ ~icp.use_google_maps)
        => /\ ~last.c.routed
           /\ last.c.exc = "none"
                 => /\ last.c.method = "haversine"
                    /\ last.c.distance =
                          _haversine_distance(
                              icp.origin_latitude, icp.origin_longitude,
                              partner.partner_latitude,
                              partner.partner_longitude).v * icp.road_multiplier

\* C14 witness: a distance was returned with routing disabled, an API key
\* stored and a road multiplier other than the default.
Wit_C14 ==
    /\ last.op = "calculate"
    /\ ~icp.use_google_maps
    /\ icp.google_api_key # ""
    /\ icp.road_multiplier # DEFAULT_ROAD_MULTIPLIER
    /\ last.c.exc = "none"
    /\ last.c.distance > 0

\* C15: once a road distance has been obtained, by the service or by the
\* multiplier formula, the calculation is rejected as out of range exactly
\* when the distance is greater than max_distance; a distance equal to
\* max_distance is returned.
Thm_C15 ==
    (last.op = "calculate"
        /\ last.c.reason \notin {"geocoding_failed", "invalid_coordinates",
                                 "calculation_error"})
        => /\ last.c.reason = "out_of_range"
                 <=> last.c.distance > icp.max_distance
           /\ last.c.exc = "none" <=> last.c.distance <= icp.max_distance

\* C15 witness: the service reported a distance exactly equal to
\* max_distance and the calculation returned it.
Wit_C15 ==
    /\ last.op = "calculate"
    /\ last.c.source = "service"
    /\ last.c.distance = icp.max_distance
    /\ last.c.exc = "none"

\* C16: validation returns the zero/empty error only for (0, 0), and accepts
\* every other point with latitude in [-90, 90] and longitude in
\* [-180, 180], a point with exactly one zero component included.
Cex_C16 ==
    last.op = "validate_coordinates"
        => /\ last.error = "zero_or_empty"
                 <=> (last.pt.lat = 0 /\ last.pt.lon = 0)
           /\ (/\ -900 <= last.pt.lat /\ last.pt.lat <= 900
               /\ -1800 <= last.pt.lon /\ last.pt.lon <= 1800
               /\ ~(last.pt.lat = 0 /\ last.pt.lon = 0))
                 => last.error = ""

\* every character of s is a blank
Blank(s) == \A k \in 1..Len(s) : s[k] = " "

\* name is marker, in any letter case, between leading and trailing blanks
EqualsPadded(name, marker) ==
    \E i \in 1..(Len(name) + 1), j \in 0..Len(name) :
        /\ Blank(SubSeq(name, 1, i - 1))
        /\ Blank(SubSeq(name, j + 1, Len(name)))
        /\ Lower(SubSeq(name, i, j)) = Lower(marker)

Thm_C18 ==
    [][\A i \in Lines :
          (/\ last'.op = "onchange"
           /\ last'.line = i
           /\ is_delivery_line(order_line[i])
           /\ ~Locked(i)
           /\ order.partner_id = 0)
              => /\ last'.result = "warning"
                 /\ last'.exc = "none"
                 /\ ~last'.geocoded
                 /\ ~last'.calc_called
                 /\ order_line' = order_line
                 /\ partner' = partner]_vars

\* C18 witness: the onchange answered a warning for an unlocked delivery
\* line of an order without customer.
Wit_C18 ==
    /\ last.op = "onchange"
    /\ last.result = "warning"
    /\ order.partner_id = 0
    /\ is_delivery_line(order_line[last.line])
    /\ ~Locked(last.line)

\* C19: after calculate_distance_from_origin returned a distance, the
\* partner's x_partner_distance equals that distance.
Cex_C19 ==
    (last.op = "calculate" /\ last.c.exc = "none")
        => partner.x_partner_distance = last.c.distance

\* C20: _haversine_distance is defined and non-negative for every pair of
\* valid coordinates, zero from a point to itself, and the same in both
\* directions.
Cex_C20 ==
    last.op = "haversine_distance"
        => /\ last.ab.exc = "none"
           /\ last.ba.exc = "none"
           /\ last.aa.exc = "none"
           /\ last.ab.v >= 0
           /\ last.aa.v = 0
           /\ last.ab.v = last.ba.v

\* C21: the values one pricing calculation used (rate per mile, routing
\* flag, origin, maximum distance, API key, road multiplier) all come from
\* one configuration the store held when the calculation read it: rate and
\* outcome are those of the calculation run entirely under that configuration.
Cex_C21 ==
    (last.op = "pricing" /\ last.pc = "done")
        => \E k \in last.stores :
              /\ last.rate_per_mile = _get_rate_per_mile(k)
              /\ last.c = MeasureDistance(partner, FALSE, k,
                                          _get_delivery_settings(k), last.maps)

Outcome(c) == [exc |-> c.exc, reason |-> c.reason, value |-> c.value,
               distance |-> c.distance, method |-> c.method]

\* C23: two calls of calculate_distance_from_origin in a row for the same
\* customer, with unchanged settings and the same geocoding and routing
\* answers, give the same outcome, and the second call leaves the customer
\* record as the first left it.
Thm_C23 ==
    last.op = "calculate_twice"
        => /\ Outcome(last.second) = Outcome(last.first)
           /\ last.second.partner = last.first.partner

\* C23 witness: the first call geocoded the customer and returned a
\* distance; the second call did not geocode.
Wit_C23 ==
    /\ last.op = "calculate_twice"
    /\ last.first.geocoded
    /\ last.first.exc = "none"
    /\ last.first.partner # last.before
    /\ ~last.second.geocoded

=============================================================================
